---- MODULE Spec2Model ----
(***************************************************************************)
(* Model of assets/js/main.js: the i18n module (translation cache,         *)
(* loadLanguage / setLanguage / t / init), the particle system (particle   *)
(* array, requestAnimationFrame loop, Particle.update) and app.start.      *)
(*                                                                         *)
(* JavaScript strings that the code splits or returns are sequences of     *)
(* tokens (a token is a run of characters without a dot, or the dot).      *)
(* JSON documents are trees: a function from paths to node kinds.          *)
(***************************************************************************)
EXTENDS Integers, Sequences, FiniteSets, TLC

VARIABLES
  \* ---- i18n module state (main.js 16-216) and its environment
  currentLang,    \* let currentLang                       (line 20)
  translations,   \* const translations = {}               (line 23)
  stored,         \* localStorage['daoyou-lang'], "null" when absent
  browserLang,    \* navigator.language.startsWith('zh') ? 'zh' : 'en'
  loads,          \* fetch batches in flight, one per uncached loadLanguage
  microtasks,     \* promise reactions queued for the end of the current task
  fetches,        \* per language code: how many fetch() calls were made
  dom,            \* what updatePageTranslations last wrote to the document
  lastEvent,      \* the languageChanged event dispatched last
  settled,        \* the last loadLanguage promise that settled
  apiCalls,       \* number of setLanguage / loadLanguage calls made so far
  pathname,       \* window.location.pathname, as tokens
  \* ---- app
  phase,          \* "boot", "running" (app.start returned), "crashed" (it threw)
  started,        \* modules whose init/start app.start has run, in order
  lastOp,         \* the operation that made the last step
  \* ---- t(key, page) call record
  tKey, tPage, tResult,
  \* ---- particle module state (main.js 221-389) and its environment
  canvasInDom,    \* document has #particles-canvas
  canvas,         \* let canvas: "undefined" or "element"
  canvasSize,     \* <<canvas.width, canvas.height>>
  viewport,       \* <<window.innerWidth, window.innerHeight>>
  particlesArray, \* let particlesArray (particles by creation stamp)
  created,        \* Particle objects constructed since particlesArray was last rebuilt
  animationId,    \* let animationId (0 = undefined)
  rafPending,     \* ids of frame callbacks scheduled and not yet run or cancelled
  rafNext,        \* next id requestAnimationFrame hands out
  stopped,        \* stop() returned and no start()/restart() was called since
  \* ---- one particle followed through Particle.update
  probe

i18nVars == <<currentLang, translations, stored, browserLang, loads, microtasks,
              fetches, dom, lastEvent, settled, apiCalls, pathname>>
appVars == <<phase, started, lastOp>>
tVars == <<tKey, tPage, tResult>>
particleVars == <<canvasInDom, canvas, canvasSize, viewport, particlesArray,
                  created, animationId, rafPending, rafNext, stopped>>
vars == <<i18nVars, appVars, tVars, particleVars, probe>>

----------------------------------------------------------------------------
\* Bounds of the model

MaxKeyLen == 3      \* tokens in a translation key
MaxDepth == 2       \* nesting depth of a JSON section
MaxCalls == 2       \* setLanguage / loadLanguage calls in one behaviour
MaxInflight == 2    \* fetch batches in flight at once

----------------------------------------------------------------------------
\* Strings, JSON trees and JavaScript values

Dot == "."
Tokens == {"a", "constructor", Dot}

RECURSIVE SeqsUpTo(_, _)
SeqsUpTo(S, n) ==
  IF n = 0 THEN {<<>>}
  ELSE LET shorter == SeqsUpTo(S, n - 1)
       IN shorter \cup {Append(s, x) : s \in shorter, x \in S}

KeyStrings == SeqsUpTo(Tokens, MaxKeyLen)

\* Property names a JSON object of the bundles may own.
OwnNames == {<<"a">>}
\* Property names every object inherits from Object.prototype.
ProtoNames == {<<"constructor">>}

TreePaths == SeqsUpTo(OwnNames, MaxDepth)

NodeKinds == {"NONE", "OBJ", "STR", "NULL"}

\* A JSON document: the node kind at every path; only objects have children.
Trees ==
  {tr \in [TreePaths -> NodeKinds] :
     /\ tr[<<>>] # "NONE"
     /\ \A p \in TreePaths :
          (p # <<>> /\ tr[p] # "NONE") => tr[SubSeq(p, 1, Len(p) - 1)] = "OBJ"}

\* The seven resources of a language (main.js 40-46, 48).
SectionNames == {"common", "home", "features", "aigc", "community", "pricing", "about"}

RECURSIVE Flatten(_)
Flatten(p) == IF p = <<>> THEN <<>> ELSE Head(p) \o Flatten(Tail(p))

\* The text of the string leaf of language lang at sec/path.
LeafText(lang, sec, path) == <<lang, sec>> \o Flatten(path)

Undefined == [kind |-> "undefined", str |-> <<>>, lang |-> "", sec |-> "", path |-> <<>>]
StrVal(s) == [kind |-> "string", str |-> s, lang |-> "", sec |-> "", path |-> <<>>]
NullVal == [kind |-> "null", str |-> <<>>, lang |-> "", sec |-> "", path |-> <<>>]
\* Object.prototype.constructor, what obj['constructor'] evaluates to.
ObjectCtor == [kind |-> "function", str |-> <<"Object">>, lang |-> "", sec |-> "", path |-> <<>>]
ObjRef(lang, sec, path) ==
  [kind |-> "object", str |-> <<>>, lang |-> lang, sec |-> sec, path |-> path]

\* The JavaScript value of node sec/path of bundle b.
NodeVal(b, sec, path) ==
  LET n == b.secs[sec][path]
  IN CASE n = "OBJ" -> ObjRef(b.lang, sec, path)
       [] n = "STR" -> StrVal(LeafText(b.lang, sec, path))
       [] n = "NULL" -> NullVal
       [] OTHER -> Undefined

\* data[page]: undefined when the bundle has no such section.
SectionVal(b, page) == IF page \in SectionNames THEN NodeVal(b, page, <<>>) ELSE Undefined

\* JavaScript truthiness of a value (strings of the bundles are non-empty).
Truthy(v) == v.kind \in {"object", "function"} \/ (v.kind = "string" /\ v.str # <<>>)

\* typeof v === 'object'
TypeofObject(v) == v.kind \in {"object", "null"}

\* `name in v` for an object v: own property, or inherited through the prototype chain.
HasOwn(b, v, name) ==
  /\ v.kind = "object"
  /\ Append(v.path, name) \in TreePaths
  /\ b.secs[v.sec][Append(v.path, name)] # "NONE"
In(b, v, name) == HasOwn(b, v, name) \/ name \in ProtoNames

\* v[name] for an object v with `name in v`.
GetProp(b, v, name) ==
  IF HasOwn(b, v, name) THEN NodeVal(b, v.sec, Append(v.path, name)) ELSE ObjectCtor

\* key.split('.')
RECURSIVE Split(_)
Split(s) ==
  IF \A i \in 1..Len(s) : s[i] # Dot THEN <<s>>
  ELSE LET i == CHOOSE k \in 1..Len(s) : s[k] = Dot /\ \A j \in 1..(k - 1) : s[j] # Dot
       IN <<SubSeq(s, 1, i - 1)>> \o Split(SubSeq(s, i + 1, Len(s)))

\* The for loop of getNestedValue from index i on (main.js 104-111).
RECURSIVE NestedLoop(_, _, _, _)
NestedLoop(b, value, keys, i) ==
  IF i > Len(keys) THEN value
  ELSE IF Truthy(value) /\ TypeofObject(value) /\ In(b, value, keys[i])
       THEN NestedLoop(b, GetProp(b, value, keys[i]), keys, i + 1)
       ELSE Undefined

getNestedValue(b, obj, keys) ==
  IF ~Truthy(obj) \/ ~TypeofObject(obj) THEN Undefined
  ELSE NestedLoop(b, obj, keys, 1)

\* t(key, page) against the cache tr and the current language lang (main.js 76-92).
t(tr, lang, key, page) ==
  IF lang \notin DOMAIN tr THEN StrVal(key)
  ELSE LET data == tr[lang]
           keys == Split(key)
           value == getNestedValue(data, SectionVal(data, page), keys)
           value2 == IF value = Undefined /\ Truthy(SectionVal(data, "common"))
                     THEN getNestedValue(data, SectionVal(data, "common"), keys)
                     ELSE value
       IN IF value2 # Undefined THEN value2 ELSE StrVal(key)

\* getCurrentPage() (main.js 118-126); path.includes(w) is "w is a token of path".
getCurrentPage(path) ==
  LET includes(w) == \E i \in 1..Len(path) : path[i] = w
  IN CASE includes("features") -> "features"
       [] includes("aigc") -> "aigc"
       [] includes("community") -> "community"
       [] includes("pricing") -> "pricing"
       [] includes("about") -> "about"
       [] OTHER -> "home"

Pathnames == {<<"/", "index", ".html">>, <<"/", "pages", "/", "pricing", ".html">>}

----------------------------------------------------------------------------
\* i18n: languages, the server's resources, the document

Supported == {"zh", "en"}          \* the codes the site ships (main.js 20)
Codes == Supported \cup {"fr"}     \* arguments a caller may pass
NoItem == "null"                   \* localStorage.getItem of an absent key
\* <<stored preference, browser language>> a visitor may arrive with.
Visitors == {<<NoItem, "en">>, <<"zh", "en">>, <<"fr", "zh">>}

\* Number of JSON resources one loadLanguage fetches (main.js 40-46).
NumResources == 7

\* The JSON the server holds for a section.
ServerTree(sec) ==
  [p \in TreePaths |->
     CASE p = <<>> -> "OBJ"
       [] p = << <<"a">> >> -> IF sec = "common" THEN "STR" ELSE IF sec = "home" THEN "OBJ" ELSE "NONE"
       [] p = << <<"a">>, <<"a">> >> -> IF sec = "home" THEN "STR" ELSE "NONE"
       [] OTHER -> "NONE"]

\* { common, home, features, aigc, community, pricing, about } (main.js 48).
ServerBundle(lang) == [lang |-> lang, secs |-> [sec \in SectionNames |-> ServerTree(sec)]]

\* {} as a bundle value (main.js 53).
EmptyObject == [lang |-> "", secs |-> <<>>]

\* translations[lang] || {}
CachedOrEmpty(tr, lang) == IF lang \in DOMAIN tr THEN tr[lang] ELSE EmptyObject

\* Elements carrying data-i18n, with their data-i18n-page ("" when absent).
Elements == {1, 2}
ElementKey(e) == IF e = 1 THEN <<"a", Dot, "a">> ELSE <<"a">>
ElementPage(e) == IF e = 1 THEN "" ELSE "common"
\* data-lang of the .lang-btn elements.
LangButtons == {"zh", "en"}

StaticText == StrVal(<<"static">>)
InitialDom ==
  [texts |-> [e \in Elements |-> StaticText], active |-> {}, htmlLang |-> "",
   lang |-> "", loaded |-> FALSE]

\* updatePageTranslations() (main.js 131-160) under cache tr and language lang.
updatePageTranslations(d, tr, lang, path) ==
  [d EXCEPT
     !.texts = [e \in Elements |->
                  t(tr, lang, ElementKey(e),
                    IF ElementPage(e) # "" THEN ElementPage(e) ELSE getCurrentPage(path))],
     !.active = {b \in LangButtons : b = lang},
     !.htmlLang = IF lang = "zh" THEN "zh-CN" ELSE "en",
     !.lang = lang]

NoEvent == [type |-> "none", lang |-> "", current |-> "", domLang |-> ""]

NoSettle == [lang |-> "", ok |-> TRUE, value |-> EmptyObject, prev |-> "", by |-> "none",
             prevBundle |-> EmptyObject]

----------------------------------------------------------------------------
\* Particle system: configuration and helpers

\* config.count (main.js 230)
Count == 80
MaxCreated == 163   \* Particle objects constructed for one particle array
MaxRaf == 4         \* requestAnimationFrame ids handed out in one behaviour

\* window.innerWidth x window.innerHeight the browser may report, in pixels.
Viewports == {<<1, 1>>, <<2, 1>>}

NoCanvas == "undefined"
CanvasEl == "element"

\* The modules app.start initialises, in order (main.js 882-889).
Modules == <<"i18n", "particles", "scrollReveal", "navigation", "mobileMenu",
             "langSwitcher", "forms", "backToTop">>

----------------------------------------------------------------------------
\* i18n operations

\* lastOp: the operation, its argument, and how it ended ("" for a normal return).
Op(name, arg, ret) == [op |-> name, arg |-> arg, ret |-> ret]

\* The reaction chained on loadLanguage's promise by its caller:
\* setLanguage (main.js 177-181), init (main.js 202-205), or none.
ThenBody(by, lang, tr, cur) ==
  /\ dom' = CASE by = "setLanguage" -> updatePageTranslations(dom, tr, cur, pathname)
              [] by = "init" -> [updatePageTranslations(dom, tr, cur, pathname)
                                   EXCEPT !.loaded = TRUE]
              [] OTHER -> dom
  /\ lastEvent' = IF by = "setLanguage"
                  THEN [type |-> "languageChanged", lang |-> lang, current |-> cur,
                        domLang |-> cur]
                  ELSE lastEvent

\* Variant of the cache test: the cache is never consulted.
CachedNever(lang) == FALSE

\* if (translations[lang]) (main.js 32)
Cached(lang) == lang \in DOMAIN translations

\* loadLanguage(lang) called by `by` (main.js 30-55); prev is the language that was
\* current before the caller switched, and settled.prevBundle its cached bundle
\* (or {}) at the moment the promise settles.
loadLanguage(lang, by, prev) ==
  IF Cached(lang)
  THEN /\ settled' = [lang |-> lang, ok |-> TRUE, value |-> translations[lang],
                      prev |-> prev, by |-> by,
                      prevBundle |-> CachedOrEmpty(translations, prev)]
       /\ microtasks' = IF by = "loadLanguage" THEN microtasks
                        ELSE Append(microtasks, [by |-> by, lang |-> lang])
       /\ UNCHANGED <<loads, fetches>>
  ELSE /\ loads' = Append(loads, [lang |-> lang, by |-> by, prev |-> prev])
       /\ fetches' = [fetches EXCEPT ![lang] = @ + NumResources]
       /\ UNCHANGED <<settled, microtasks>>

\* May another call start a fetch batch (bound of the model)?
RoomFor(lang) == Cached(lang) \/ Len(loads) < MaxInflight

\* Variant of the guard: the early return is missing.
SameLanguageNever(lang) == FALSE

\* lang === currentLang (main.js 168)
SameLanguage(lang) == lang = currentLang

\* i18n.setLanguage(lang) (main.js 167-182); the write to localStorage may throw.
SetLanguage(lang, writeThrows) ==
  /\ phase = "running"
  /\ apiCalls < MaxCalls
  /\ RoomFor(lang)
  /\ apiCalls' = apiCalls + 1
  /\ lastOp' = Op("setLanguage", lang, IF SameLanguage(lang) THEN "same" ELSE "")
  /\ IF SameLanguage(lang)
     THEN UNCHANGED <<currentLang, stored, loads, fetches, settled, microtasks>>
     ELSE /\ currentLang' = lang
          /\ stored' = IF writeThrows THEN stored ELSE lang
          /\ loadLanguage(lang, "setLanguage", currentLang)
  /\ UNCHANGED <<translations, browserLang, dom, lastEvent, pathname>>
  /\ UNCHANGED <<phase, started, tVars, particleVars, probe>>

\* i18n.loadLanguage(lang) called directly (it is exported, main.js 213).
LoadLanguage(lang) ==
  /\ phase = "running"
  /\ apiCalls < MaxCalls
  /\ RoomFor(lang)
  /\ apiCalls' = apiCalls + 1
  /\ lastOp' = Op("loadLanguage", "", "")
  /\ loadLanguage(lang, "loadLanguage", currentLang)
  /\ UNCHANGED <<currentLang, stored, translations, browserLang, dom, lastEvent, pathname>>
  /\ UNCHANGED <<phase, started, tVars, particleVars, probe>>

\* The reaction of a promise that was already fulfilled runs when the task ends.
RunMicrotask ==
  /\ microtasks # <<>>
  /\ LET m == Head(microtasks)
     IN /\ ThenBody(m.by, m.lang, translations, currentLang)
        /\ lastOp' = Op("then", "", "")
  /\ microtasks' = Tail(microtasks)
  /\ UNCHANGED <<currentLang, translations, stored, browserLang, loads, fetches,
                 settled, apiCalls, pathname>>
  /\ UNCHANGED <<phase, started, tVars, particleVars, probe>>

Remove(seq, i) == SubSeq(seq, 1, i - 1) \o SubSeq(seq, i + 1, Len(seq))

\* The last outstanding resource of batch i arrives and parses, which fulfils
\* Promise.all: the bundle is cached (main.js 47-50) and the caller's reaction runs.
\* (The earlier responses of a batch change nothing the program can read.)
FetchOk(i) ==
  /\ i \in DOMAIN loads
  /\ microtasks = <<>>
  /\ LET l == loads[i]
         tr == [c \in DOMAIN translations \cup {l.lang} |->
                  IF c = l.lang THEN ServerBundle(l.lang) ELSE translations[c]]
     IN /\ translations' = tr
        /\ settled' = [lang |-> l.lang, ok |-> TRUE, value |-> tr[l.lang],
                       prev |-> l.prev, by |-> l.by,
                       prevBundle |-> CachedOrEmpty(translations, l.prev)]
        /\ ThenBody(l.by, l.lang, tr, currentLang)
        /\ lastOp' = Op("loaded", "", "")
  /\ loads' = Remove(loads, i)
  /\ UNCHANGED <<currentLang, stored, browserLang, microtasks, fetches, apiCalls, pathname>>
  /\ UNCHANGED <<phase, started, tVars, particleVars, probe>>

\* One resource of batch i fails (network error, 404 body that is not JSON):
\* Promise.all rejects and the catch handler answers (main.js 51-54).
FetchFail(i) ==
  /\ i \in DOMAIN loads
  /\ microtasks = <<>>
  /\ LET l == loads[i]
     IN /\ settled' = [lang |-> l.lang, ok |-> FALSE,
                       value |-> CachedOrEmpty(translations, currentLang),
                       prev |-> l.prev, by |-> l.by,
                       prevBundle |-> CachedOrEmpty(translations, l.prev)]
        /\ ThenBody(l.by, l.lang, translations, currentLang)
        /\ lastOp' = Op("failed", "", "")
  /\ loads' = Remove(loads, i)
  /\ UNCHANGED <<currentLang, translations, stored, browserLang, microtasks, fetches,
                 apiCalls, pathname>>
  /\ UNCHANGED <<phase, started, tVars, particleVars, probe>>

----------------------------------------------------------------------------
\* Particle operations. particlesArray holds the particles by creation stamp (n is
\* the n-th Particle constructed since initCanvas last rebuilt the array); the
\* fields Particle.update changes are followed on `probe`.

\* initCanvas() (main.js 283-295) with resizeCanvas() (main.js 300-304):
\* the canvas variable, its size, the particle array and the stamp counter after it.
InitCanvasResult(vp) ==
  IF canvasInDom
  THEN [canvas |-> CanvasEl, size |-> vp,
        arr |-> [i \in 1..Count |-> i], created |-> Count]
  ELSE [canvas |-> NoCanvas, size |-> canvasSize, arr |-> particlesArray,
        created |-> created]

\* Variant of the cap test: one particle late.
OverCapLate(n) == n > Count * 2 + 1

\* if (particlesArray.length > config.count * 2) (main.js 351)
OverCap(n) == n > Count * 2

\* start() (main.js 359-364) run with the frame callbacks `pending` outstanding and
\* the window at size vp: initCanvas, then animate() draws one frame and requests
\* the next (main.js 332-343).
StartFrom(pending, vp) ==
  LET r == InitCanvasResult(vp)
  IN /\ canvas' = r.canvas
     /\ canvasSize' = r.size
     /\ particlesArray' = r.arr
     /\ created' = r.created
     /\ IF r.canvas = CanvasEl
        THEN /\ animationId' = rafNext
             /\ rafPending' = pending \cup {rafNext}
             /\ rafNext' = rafNext + 1
        ELSE /\ rafPending' = pending
             /\ UNCHANGED <<animationId, rafNext>>
     /\ stopped' = FALSE

\* What stop() leaves scheduled (main.js 369-373): cancelAnimationFrame(animationId).
AfterStop == IF animationId # 0 THEN rafPending \ {animationId} ELSE rafPending

CanStart == rafNext <= MaxRaf

\* particles.start()
Start ==
  /\ phase = "running"
  /\ CanStart
  /\ StartFrom(rafPending, viewport)
  /\ lastOp' = Op("start", "", "")
  /\ UNCHANGED <<canvasInDom, viewport>>
  /\ UNCHANGED <<i18nVars, phase, started, tVars, probe>>

\* particles.stop()
Stop ==
  /\ phase = "running"
  /\ rafPending' = AfterStop
  /\ stopped' = TRUE
  /\ lastOp' = Op("stop", "", "")
  /\ UNCHANGED <<canvasInDom, canvas, canvasSize, viewport, particlesArray, created,
                 animationId, rafNext>>
  /\ UNCHANGED <<i18nVars, phase, started, tVars, probe>>

\* particles.restart() (main.js 378-381): stop(); start().
Restart ==
  /\ phase = "running"
  /\ CanStart
  /\ StartFrom(AfterStop, viewport)
  /\ lastOp' = Op("restart", "", "")
  /\ UNCHANGED <<canvasInDom, viewport>>
  /\ UNCHANGED <<i18nVars, phase, started, tVars, probe>>

\* The browser resizes the window. Once app.start has run, the throttled resize
\* handler (main.js 892-894) calls particles.restart(), at once (now) or from its timer,
\* which is a later Restart.
Resize(v, now) ==
  /\ v # viewport
  /\ viewport' = v
  /\ lastOp' = Op("resize", "", "")
  /\ IF now /\ phase = "running" /\ CanStart
     THEN StartFrom(AfterStop, v)
     ELSE UNCHANGED <<canvas, canvasSize, particlesArray, created, animationId,
                      rafPending, rafNext, stopped>>
  /\ UNCHANGED canvasInDom
  /\ UNCHANGED <<i18nVars, phase, started, tVars, probe>>

\* The display refreshes and frame callback id runs animate() (main.js 332-343):
\* every particle is updated and drawn, and the next frame is requested.
Frame(id) ==
  /\ id \in rafPending
  /\ rafNext <= MaxRaf
  /\ animationId' = rafNext
  /\ rafPending' = (rafPending \ {id}) \cup {rafNext}
  /\ rafNext' = rafNext + 1
  /\ lastOp' = Op("frame", "", "")
  /\ UNCHANGED <<canvasInDom, canvas, canvasSize, viewport, particlesArray, created,
                 stopped>>
  /\ UNCHANGED <<i18nVars, phase, started, tVars, probe>>

\* particles.addParticle(x, y) (main.js 348-354). xy tells whether both coordinates
\* are truthy; if one is not, new Particle reads canvas.width or canvas.height
\* (main.js 243-244), which throws while canvas is undefined.
AddParticle(xy) ==
  /\ phase = "running"
  /\ created < MaxCreated
  /\ IF ~xy /\ canvas = NoCanvas
     THEN /\ lastOp' = Op("addParticle", "", "threw")
          /\ UNCHANGED <<particlesArray, created>>
     ELSE /\ LET pushed == Append(particlesArray, created + 1)
             IN particlesArray' = IF OverCap(Len(pushed)) THEN Tail(pushed) ELSE pushed
          /\ created' = created + 1
          /\ lastOp' = Op("addParticle", "", "")
  /\ UNCHANGED <<canvasInDom, canvas, canvasSize, viewport, animationId, rafPending,
                 rafNext, stopped>>
  /\ UNCHANGED <<i18nVars, phase, started, tVars, probe>>

----------------------------------------------------------------------------
\* app.start() (main.js 879-902), run once when the DOM is ready.
\* i18n.init (main.js 195-206) reads the stored preference outside any try block:
\* when localStorage.getItem throws, init and app.start end there.
AppStart(readThrows) ==
  /\ phase = "boot"
  /\ IF readThrows
     THEN /\ phase' = "crashed"
          /\ started' = <<>>
          /\ lastOp' = Op("app.start", "", "threw")
          /\ UNCHANGED <<i18nVars, particleVars>>
     ELSE /\ LET savedLang == stored
                 lang == IF savedLang \notin {NoItem, ""} THEN savedLang ELSE browserLang
             IN /\ currentLang' = lang
                /\ loadLanguage(lang, "init", currentLang)
          /\ StartFrom(rafPending, viewport)
          /\ phase' = "running"
          /\ started' = Modules
          /\ lastOp' = Op("app.start", "", "")
          /\ UNCHANGED <<translations, stored, browserLang, dom, lastEvent, apiCalls,
                         pathname, canvasInDom, viewport>>
  /\ UNCHANGED <<tVars, probe>>

----------------------------------------------------------------------------
\* One particle: new Particle(x, y) and Particle.update() (main.js 241-268).
\* Lengths are in 1/PosScale pixel, opacities in 1/OpScale, and Math.random()
\* returns r / RandRes for r in 0..RandRes-1. size and color are drawn once and
\* never read by update(); they are left out.

PosScale == 8
OpScale == 100
RandRes == 8

\* config.speed = 0.5, config.opacity = 0.5 (main.js 232-233), in hundredths;
\* the opacity floor 0.1 (main.js 249, 261) and the pulse range 0.02 (main.js 250).
SpeedPct == 50
OpacityPct == 50
FloorPct == 10
PulsePct == 2

Randoms == 0..(RandRes - 1)
WidthOf(size) == size[1] * PosScale
HeightOf(size) == size[2] * PosScale
OpacityCeil == (OpacityPct * OpScale) \div 100
OpacityFloor == (FloorPct * OpScale) \div 100

\* (Math.random() - 0.5) * config.speed
RandomSpeed(r) == ((2 * r - RandRes) * SpeedPct * PosScale) \div (2 * RandRes * 100)

\* constructor(x, y) (main.js 242-252); ax, ay = 0 stands for a falsy argument,
\* rnd holds the six values Math.random() returns.
NewParticle(ax, ay, rnd, size) ==
  [x |-> IF ax # 0 THEN ax ELSE (rnd.x * WidthOf(size)) \div RandRes,
   y |-> IF ay # 0 THEN ay ELSE (rnd.y * HeightOf(size)) \div RandRes,
   vx |-> RandomSpeed(rnd.vx),
   vy |-> RandomSpeed(rnd.vy),
   opacity |-> (rnd.op * OpacityPct * OpScale) \div (RandRes * 100) + OpacityFloor,
   pulse |-> (rnd.pulse * PulsePct * OpScale) \div (RandRes * 100),
   pulseDir |-> 1]

\* Variant of the boundary test: only the near edge reflects.
OutOfBoundsLow(pos, limit) == pos < 0

\* this.x < 0 || this.x > canvas.width (main.js 266-267)
OutOfBounds(pos, limit) == pos < 0 \/ pos > limit

\* update() (main.js 254-268)
ParticleUpdate(p, size) ==
  LET x1 == p.x + p.vx
      y1 == p.y + p.vy
      op1 == p.opacity + p.pulse * p.pulseDir
  IN [x |-> x1,
      y |-> y1,
      vx |-> IF OutOfBounds(x1, WidthOf(size)) THEN -p.vx ELSE p.vx,
      vy |-> IF OutOfBounds(y1, HeightOf(size)) THEN -p.vy ELSE p.vy,
      opacity |-> op1,
      pulse |-> p.pulse,
      pulseDir |-> IF op1 >= OpacityCeil \/ op1 <= OpacityFloor
                   THEN -p.pulseDir ELSE p.pulseDir]

\* A particle that was never constructed.
NoParticle == [x |-> 0, y |-> 0, vx |-> 0, vy |-> 0, opacity |-> 0, pulse |-> 0,
               pulseDir |-> 0]

\* animate() calls update() on a particle of the array (main.js 335-336).
UpdateProbe ==
  /\ probe # NoParticle
  /\ probe' = ParticleUpdate(probe, canvasSize)
  /\ lastOp' = Op("update", "", "")
  /\ UNCHANGED <<i18nVars, phase, started, tVars, particleVars>>

\* i18n.t(key, page) (main.js 76-92); page "default" is the omitted argument.
\* t writes nothing, so one call is recorded per behaviour.
T(key, page) ==
  /\ phase = "running"
  /\ tPage = ""
  /\ tKey' = key
  /\ tPage' = page
  /\ tResult' = t(translations, currentLang, key,
                  IF page = "default" THEN getCurrentPage(pathname) ELSE page)
  /\ lastOp' = Op("t", page, "")
  /\ UNCHANGED <<i18nVars, phase, started, particleVars, probe>>

----------------------------------------------------------------------------
\* Initial states: the page as the script finishes loading, before app.start.

IndexPath == <<"/", "index", ".html">>

BootI18n(st, bl, path) ==
  /\ currentLang = "zh"
  /\ translations = <<>>
  /\ stored = st
  /\ browserLang = bl
  /\ loads = <<>>
  /\ microtasks = <<>>
  /\ fetches = [c \in Codes |-> 0]
  /\ dom = InitialDom
  /\ lastEvent = NoEvent
  /\ settled = NoSettle
  /\ apiCalls = 0
  /\ pathname = path

BootParticles(inDom, vp) ==
  /\ canvasInDom = inDom
  /\ canvas = NoCanvas
  /\ canvasSize = <<0, 0>>
  /\ viewport = vp
  /\ particlesArray = <<>>
  /\ created = 0
  /\ animationId = 0
  /\ rafPending = {}
  /\ rafNext = 1
  /\ stopped = FALSE

BootApp ==
  /\ phase = "boot"
  /\ started = <<>>
  /\ lastOp = Op("script", "", "")
  /\ tKey = <<>>
  /\ tPage = ""
  /\ tResult = Undefined

\* The i18n module with its cache, fetches and reactions.
Init ==
  /\ \E v \in Visitors : BootI18n(v[1], v[2], IndexPath)
  /\ BootParticles(FALSE, <<1, 1>>)
  /\ BootApp
  /\ probe = NoParticle

Next ==
  \/ \E readThrows \in BOOLEAN : AppStart(readThrows)
  \/ \E lang \in Codes, writeThrows \in BOOLEAN : SetLanguage(lang, writeThrows)
  \/ \E lang \in Codes : LoadLanguage(lang)
  \/ RunMicrotask
  \/ \E i \in 1..MaxInflight + 1 : FetchOk(i)
  \/ \E i \in 1..MaxInflight + 1 : FetchFail(i)

Spec == Init /\ [][Next]_vars

\* The particle system with its array and its frame callbacks.
InitParticles ==
  /\ BootI18n(NoItem, "en", IndexPath)
  /\ \E inDom \in BOOLEAN, vp \in Viewports : BootParticles(inDom, vp)
  /\ BootApp
  /\ probe = NoParticle

NextParticles ==
  \/ AppStart(FALSE)
  \/ Start
  \/ Stop
  \/ Restart
  \/ \E v \in Viewports, now \in BOOLEAN : Resize(v, now)
  \/ \E id \in 1..MaxRaf : Frame(id)
  \/ \E xy \in BOOLEAN : AddParticle(xy)

SpecParticles == InitParticles /\ [][NextParticles]_vars

\* t(key, page) on a loaded bundle: a page without canvas whose language cl has
\* been loaded by init, the server holding trees pg and cm for the page's own
\* section and for common.
EmptyTree == [p \in TreePaths |-> IF p = <<>> THEN "OBJ" ELSE "NONE"]

LoadedBundle(cl, path, pg, cm) ==
  [lang |-> cl,
   secs |-> [sec \in SectionNames |->
               IF sec = "common" THEN cm
               ELSE IF sec = getCurrentPage(path) THEN pg ELSE EmptyTree]]

InitResolve ==
  /\ \E cl \in Supported, path \in Pathnames, pg \in Trees, cm \in Trees :
       LET b == LoadedBundle(cl, path, pg, cm)
           tr == [c \in {cl} |-> b]
       IN /\ currentLang = cl
          /\ translations = tr
          /\ stored = cl
          /\ browserLang = cl
          /\ pathname = path
          /\ fetches = [c \in Codes |-> IF c = cl THEN NumResources ELSE 0]
          /\ dom = [updatePageTranslations(InitialDom, tr, cl, path) EXCEPT !.loaded = TRUE]
          /\ settled = [lang |-> cl, ok |-> TRUE, value |-> b, prev |-> "zh", by |-> "init",
                        prevBundle |-> EmptyObject]
  /\ loads = <<>>
  /\ microtasks = <<>>
  /\ lastEvent = NoEvent
  /\ apiCalls = 0
  /\ BootParticles(FALSE, <<1, 1>>)
  /\ phase = "running"
  /\ started = Modules
  /\ lastOp = Op("loaded", "", "")
  /\ tKey = <<>>
  /\ tPage = ""
  /\ tResult = Undefined
  /\ probe = NoParticle

ResolvePages == {"default", "common", "about", "nopage"}

NextResolve == \E key \in KeyStrings, page \in ResolvePages : T(key, page)

SpecResolve == InitResolve /\ [][NextResolve]_vars

\* Particle.update() on one particle of a started system: the particle comes from
\* new Particle() (initCanvas) or new Particle(x, y) (addParticle, with a point of
\* the canvas), and either moves with a constant opacity or pulses in place.
CanvasPoints(size) == {0, 1, WidthOf(size) \div 2, WidthOf(size)}

Still == RandRes \div 2

MovingDraws ==
  [x : Randoms, y : Randoms, vx : Randoms, vy : Randoms, op : {0}, pulse : {0}]
PulsingDraws ==
  [x : {0}, y : {0}, vx : {Still}, vy : {Still}, op : Randoms, pulse : Randoms]

InitMotion ==
  /\ currentLang = "en"
  /\ translations = <<>>
  /\ stored = NoItem
  /\ browserLang = "en"
  /\ loads = <<[lang |-> "en", by |-> "init", prev |-> "zh"]>>
  /\ microtasks = <<>>
  /\ fetches = [c \in Codes |-> IF c = "en" THEN NumResources ELSE 0]
  /\ dom = InitialDom
  /\ lastEvent = NoEvent
  /\ settled = NoSettle
  /\ apiCalls = 0
  /\ pathname = IndexPath
  /\ \E vp \in Viewports :
       /\ canvasSize = vp
       /\ viewport = vp
       /\ \E rnd \in MovingDraws \cup PulsingDraws, ax \in CanvasPoints(vp) :
            probe = NewParticle(ax, IF ax > HeightOf(vp) THEN HeightOf(vp) ELSE ax, rnd, vp)
  /\ canvasInDom = TRUE
  /\ canvas = CanvasEl
  /\ particlesArray = [i \in 1..Count |-> i]
  /\ created = Count
  /\ animationId = 1
  /\ rafPending = {1}
  /\ rafNext = 2
  /\ stopped = FALSE
  /\ phase = "running"
  /\ started = Modules
  /\ lastOp = Op("new Particle", "", "")
  /\ tKey = <<>>
  /\ tPage = ""
  /\ tResult = Undefined

NextMotion == UpdateProbe

SpecMotion == InitMotion /\ [][NextMotion]_vars

\* While the loop runs, every display refresh runs animate(), which requests the
\* next frame itself (main.js 342): updates keep coming.
SpecMotionFair == SpecMotion /\ WF_vars(UpdateProbe)

----------------------------------------------------------------------------
\* Claims about t(key, page), under SpecResolve

\* The whole path segs exists in section sec of bundle b, as own properties.
PathExists(b, sec, segs) ==
  /\ sec \in SectionNames
  /\ segs \in TreePaths
  /\ b.secs[sec][segs] # "NONE"

\* What the contract of resolve promises for key and page on bundle b.
Promised(b, key, page) ==
  LET segs == Split(key)
  IN IF PathExists(b, page, segs) THEN NodeVal(b, page, segs)
     ELSE IF PathExists(b, "common", segs) THEN NodeVal(b, "common", segs)
     ELSE StrVal(key)

CalledPage == IF tPage = "default" THEN getCurrentPage(pathname) ELSE tPage

\* C1: with the current language's bundle loaded, t(key, page) returns the value at
\* the key's path in the page section if the whole path exists there, else the value
\* at that path in common if it exists there, else the key itself.
C1_ResolveContract ==
  (tPage # "" /\ currentLang \in DOMAIN translations)
    => tResult = Promised(translations[currentLang], tKey, CalledPage)

----------------------------------------------------------------------------
\* Claims about the i18n module, under Spec

\* C2 (as claimed): the resources of a language are fetched exactly once per code,
\* whatever the sequence of loads and whether or not earlier loads have settled.
C2_FetchedOncePerCode == \A c \in Codes : fetches[c] <= NumResources

\* C2 (amended): a step taken while a code's bundle is in the cache starts no fetch
\* for that code: every load of a cached code is served from the cache.
C2_CachedLoadStartsNoFetch ==
  [][\A c \in Codes : c \in DOMAIN translations => fetches'[c] = fetches[c]]_vars

\* setLanguage(l) has just been served from the cache (its reaction is queued) and
\* l's resources were fetched once.
C2_Witness ==
  /\ lastOp.op = "setLanguage"
  /\ lastOp.ret = ""
  /\ microtasks # <<>>
  /\ microtasks[Len(microtasks)].lang = lastOp.arg
  /\ fetches[lastOp.arg] = NumResources

\* C3: when a fetch of loadLanguage(code) fails, the promise fulfils with the cached
\* bundle of the language that was active before the switch, or {} if it has none.
C3_FailureFallsBackToPrevious ==
  (settled.by # "none" /\ ~settled.ok) => settled.value = settled.prevBundle

\* C4: every languageChanged event carries the language that is current when it is
\* dispatched, and the DOM was just re-rendered in that language.
C4_EventCarriesCurrentLanguage ==
  lastEvent.type = "languageChanged"
    => (lastEvent.lang = lastEvent.current /\ lastEvent.domLang = lastEvent.lang)

\* C5: setLanguage(code) with the code that is already current changes nothing: no
\* fetch, no queued reaction (so no DOM update and no event), no write to the store,
\* the same current language and cache.
C5_SameLanguageIsNoOp ==
  [][(lastOp'.op = "setLanguage" /\ lastOp'.arg = currentLang /\ apiCalls' = apiCalls + 1)
       => UNCHANGED <<currentLang, translations, stored, loads, microtasks, fetches,
                      dom, lastEvent, settled>>]_vars

\* setLanguage has just returned early on the current language, which the store
\* does not hold.
C5_Witness ==
  /\ lastOp.op = "setLanguage"
  /\ lastOp.ret = "same"
  /\ lastOp.arg = currentLang
  /\ stored # currentLang

\* C6: once init has run, the current language and the persisted preference (when
\* there is one) are supported codes, whatever was persisted before and whatever
\* setLanguage is called with.
C6_LanguageAlwaysSupported ==
  phase = "running" => (currentLang \in Supported /\ stored \in Supported \cup {NoItem})

\* C10: a failing store is swallowed: app.start ends normally with every module
\* initialised, a language chosen and its load started.
C10_StorageFailureSwallowed ==
  phase # "boot"
    => (phase = "running" /\ started = Modules /\ fetches[currentLang] >= NumResources)

----------------------------------------------------------------------------
\* Claims about the particle system, under SpecParticles

\* C7: there are never more than 2 x config.count particles, the array is in creation
\* order, and an addParticle that would pass the cap evicts exactly the oldest one.
C7_ParticleCap ==
  /\ [](/\ Len(particlesArray) <= 2 * Count
        /\ \A i \in 1..(Len(particlesArray) - 1) : particlesArray[i] < particlesArray[i + 1])
  /\ [][(lastOp'.op = "addParticle" /\ created' = created + 1)
          => particlesArray' = IF Len(particlesArray) + 1 > 2 * Count
                               THEN Append(Tail(particlesArray), created')
                               ELSE Append(particlesArray, created')]_vars

\* addParticle has just evicted the first particle of a full array.
C7_Witness ==
  /\ lastOp.op = "addParticle"
  /\ Len(particlesArray) = 2 * Count
  /\ Head(particlesArray) = 2

\* C9: after stop() and until the next start() or restart(), no frame callback is
\* pending (so no frame runs).
C9_StopCancelsLoop == stopped => rafPending = {}

\* C12: after restart() on a page with the canvas, the array holds exactly config.count
\* particles, all built by this restart, the canvas has the size of the window, and
\* exactly one frame callback is pending.
C12_RestartReinitialises ==
  (lastOp.op = "restart" /\ canvas = CanvasEl)
    => (/\ particlesArray = [i \in 1..Count |-> i]
        /\ created = Count
        /\ canvasSize = viewport
        /\ Cardinality(rafPending) = 1)

----------------------------------------------------------------------------
\* Claims about Particle.update, under SpecMotion

Abs(n) == IF n < 0 THEN -n ELSE n

\* C8 (as claimed): after an update the particle is inside the canvas.
C8_PositionInsideCanvas ==
  lastOp.op = "update"
    => (/\ 0 <= probe.x /\ probe.x <= WidthOf(canvasSize)
        /\ 0 <= probe.y /\ probe.y <= HeightOf(canvasSize))

\* C8 (amended): after an update the particle is at most one step of its own
\* velocity outside the canvas, on either axis.
C8_PositionWithinOneStep ==
  lastOp.op = "update"
    => (/\ -Abs(probe.vx) <= probe.x /\ probe.x <= WidthOf(canvasSize) + Abs(probe.vx)
        /\ -Abs(probe.vy) <= probe.y /\ probe.y <= HeightOf(canvasSize) + Abs(probe.vy))

\* An update has carried the particle past the left edge.
C8_Witness == lastOp.op = "update" /\ probe.x < 0

----------------------------------------------------------------------------
\* Claims about the opacity pulse, under SpecMotionFair

\* this.opacity >= config.opacity || this.opacity <= 0.1, as a reading of the particle
AtOrBeyondBound == probe.opacity >= OpacityCeil \/ probe.opacity <= OpacityFloor

\* C11: whenever a pulsing particle's opacity is at or beyond the floor or the ceiling
\* after an update, later updates bring it strictly inside the range again.
C11_OpacityReturnsInside ==
  (lastOp.op = "update" /\ probe.pulse > 0 /\ AtOrBeyondBound) ~> ~AtOrBeyondBound

====
